---- MODULE Spec2Model ----
(***************************************************************************)
(* Model of src/index.tsx: the TestRunner component (the timed session     *)
(* engine) and the part of App that hosts it (activeTest, userStats, view).*)
(*                                                                         *)
(* React scheduling, as far as the code depends on it:                     *)
(*  - an event handler or effect reads the state of the render it was      *)
(*    created in (its closure), not the latest state;                      *)
(*  - a click is a discrete event: the state it sets is rendered and       *)
(*    committed, and the passive effects of that commit are run, before    *)
(*    the next event is handled;                                           *)
(*  - state set from a timer callback or from a passive effect is rendered *)
(*    in a later scheduler task, and the passive effects of such a commit  *)
(*    run in a later task too: a click can be handled in between, with the *)
(*    closures of the last committed render;                               *)
(*  - passive effects that are still pending are run before the next       *)
(*    render starts.                                                       *)
(* The History entry's date and the texts of a Question are left out: no   *)
(* operation reads them.  showPalette is left out: it only moves a panel.  *)
(***************************************************************************)
EXTENDS Integers, Sequences, FiniteSets, TLC

\* ---------------------------------------------------------------- bounds
\* how many Attempts are started in one run
MaxAttempts == 2
\* durationMinutes of the Tests that are started ranges over 1..MaxDuration
MaxDuration == 1
\* the interval callbacks followed below timeLeft = 0, should the interval stay armed
MaxOvershoot == 2
\* the catalogs of papers that are fetched have up to MaxPaperQuestions questions,
\* and up to MaxHostQuestions where the host goes on to start Tests made of them
MaxPaperQuestions == 3
MaxHostQuestions == 2
\* a category of a fetched catalog has up to MaxFew questions, or as many as the cap
\* of the full mock and up to MaxOver more
MaxFew == 2
MaxOver == 1
\* the rotations a shuffle may make
MaxShift == 1

\* seconds per minute: useState(test.durationMinutes * 60)
SecondsPerMinute == 60
\* the "unanswered" mark: new Array(n).fill(-1)
Unanswered == -1
\* the delay of handleSubmit: setTimeout(resolve, 1500)
SubmitDelayMs == 1500
\* the period of the timer: setInterval(..., 1000)
TickMs == 1000

\* ---------------------------------------------------------------- data
\* A Question, as far as the engine reads it: correctAnswer and the number of
\* options (options.length).
Question(correct, nOptions) == [correctAnswer |-> correct, options |-> nOptions]

\* activeTest === null
NoTest == [id |-> "null", durationMinutes |-> 0, questions |-> <<>>, type |-> "NONE"]

\* The Tests the host can start in this model: a two-question sectional mock
\* and a one-question practice Test.
MockTests ==
    { [id |-> "mock-quant-1", durationMinutes |-> d,
       questions |-> <<Question(1, 2), Question(0, 2)>>, type |-> "MOCK"]
        : d \in 1..MaxDuration }

PracticeTests ==
    { [id |-> "practice-q1", durationMinutes |-> d,
       questions |-> <<Question(0, 2)>>, type |-> "PRACTICE"]
        : d \in 1..MaxDuration }

Sections == {"dashboard", "mocks", "pyq", "practice", "progress"}

EmptyStats == [testsTaken |-> 0, questionsAttempted |-> 0, correctAnswers |-> 0,
               history |-> <<>>]

VARIABLES
    view,        \* App: const [view, setView]
    userStats,   \* App: const [userStats, setUserStats]
    activeTest,  \* App: const [activeTest, setActiveTest]
    runner,      \* the mounted TestRunner (its hooks, its interval), or Unmounted
    timeouts,    \* the pending setTimeout continuations of handleSubmit, oldest first
    attempts,    \* how many TestRunners were mounted so far
    started,     \* history variable: the Test each Attempt was started with
    emissions,   \* history variable: per Attempt, the onFinish(score, total) calls
    cancelled,   \* history variable: the Attempts cancelled, and in which status
    catalog,     \* App: const [questions, setQuestions], the catalog as fetched
    pyqPapers,   \* App: const [pyqPapers, setPyqPapers]
    mockTests,   \* App: const [mockTests, setMockTests]
    alerted      \* history variable: the messages shown with alert()

\* The catalog state of the App, which the TestRunner and its handlers never set.
catalogVars == <<catalog, pyqPapers, mockTests, alerted>>

vars == <<view, userStats, activeTest, runner, timeouts, attempts, started, emissions, cancelled,
          catalogVars>>

\* ---------------------------------------------------------------- TestRunner
\* No TestRunner is mounted.
Unmounted ==
    [mounted |-> FALSE, id |-> 0, test |-> NoTest, onFinish |-> FALSE,
     currentQ |-> 0, answers |-> <<>>, answersRef |-> <<>>, timeLeft |-> 0,
     isSubmitting |-> FALSE, shownSubmitting |-> FALSE, showConfirmModal |-> FALSE,
     interval |-> FALSE, effectPending |-> FALSE,
     ticks |-> 0, autoSubmits |-> 0, manual |-> FALSE]

\* armsInterval without the timeLeft === 0 branch: the interval is armed after every
\* render.
armsIntervalAlways(timeLeft) == TRUE

\* The timer effect arms the interval unless timeLeft === 0.
armsInterval(timeLeft) == timeLeft # 0

\* The scoring loop counting the answered slots instead of the correct ones.
RECURSIVE ScoreFromAnswered(_, _, _)
ScoreFromAnswered(finalAnswers, questions, idx) ==
    IF idx > Len(questions) THEN 0
    ELSE (IF finalAnswers[idx] # Unanswered THEN 1 ELSE 0)
         + ScoreFromAnswered(finalAnswers, questions, idx + 1)

\* The hooks of a TestRunner right after mounting: the useState initial values, and
\* the timer effect of the first render.
\*   shownSubmitting: the isSubmitting of the committed render (what closures hold);
\*   interval: a setInterval is armed;
\*   effectPending: the render with timeLeft = 0 is committed, its effect has not run;
\*   ticks, autoSubmits, manual: history fields, the interval callbacks run, the
\*   handleSubmit calls made by the timer effect, and whether "Submit Now" submitted.
InitialRunner(n, test, hasOnFinish) ==
    [mounted |-> TRUE, id |-> n, test |-> test, onFinish |-> hasOnFinish,
     currentQ |-> 0,
     answers |-> [i \in 1..Len(test.questions) |-> Unanswered],
     answersRef |-> [i \in 1..Len(test.questions) |-> Unanswered],
     timeLeft |-> test.durationMinutes * SecondsPerMinute,
     isSubmitting |-> FALSE, shownSubmitting |-> FALSE, showConfirmModal |-> FALSE,
     interval |-> armsInterval(test.durationMinutes * SecondsPerMinute),
     effectPending |-> ~armsInterval(test.durationMinutes * SecondsPerMinute),
     ticks |-> 0, autoSubmits |-> 0, manual |-> FALSE]

\* The scoring loop: test.questions.forEach((q, idx) => { if (finalAnswers[idx] ===
\* q.correctAnswer) score++ }), from question idx (1-based) on.
RECURSIVE ScoreFrom(_, _, _)
ScoreFrom(finalAnswers, questions, idx) ==
    IF idx > Len(questions) THEN 0
    ELSE (IF finalAnswers[idx] = questions[idx].correctAnswer THEN 1 ELSE 0)
         + ScoreFrom(finalAnswers, questions, idx + 1)

\* Continuation with the number of answered questions as the total.
ContinuationAnsweredTotal(r, stats) ==
    [attempt |-> r.id,
     score |-> ScoreFrom(r.answersRef, r.test.questions, 1),
     total |-> Cardinality({j \in DOMAIN r.answersRef : r.answersRef[j] # Unanswered}),
     onFinish |-> r.onFinish,
     testId |-> r.test.id,
     stats |-> stats,
     age |-> 0]

\* The continuation handleSubmit leaves behind at its await: what it holds when the
\* 1500 ms timeout fires.  testId and stats are what the onFinish closure
\* (handleTestComplete of the App render that passed it) holds; age is the number of
\* interval callbacks run since the timeout was set.
Continuation(r, stats) ==
    [attempt |-> r.id,
     score |-> ScoreFrom(r.answersRef, r.test.questions, 1),
     total |-> Len(r.test.questions),
     onFinish |-> r.onFinish,
     testId |-> r.test.id,
     stats |-> stats,
     age |-> 0]

\* The guard of handleSubmit: if (isSubmitting) return, on the closure's value.
submitGuard(r) == r.shownSubmitting

\* handleSubmit up to its await, on c = [r |-> runner, t |-> timeouts].
handleSubmit(c, stats) ==
    IF submitGuard(c.r) THEN c
    ELSE [r |-> [c.r EXCEPT !.isSubmitting = TRUE, !.showConfirmModal = FALSE],
          t |-> Append(c.t, Continuation(c.r, stats))]

\* The timer effect of the render with timeLeft = 0 without the call of handleSubmit.
timerEffectNoSubmit(c, stats) ==
    IF c.r.effectPending
    THEN [r |-> [c.r EXCEPT !.effectPending = FALSE], t |-> c.t]
    ELSE c

\* The timer effect of the render with timeLeft = 0: handleSubmit(), no interval.
timerEffect(c, stats) ==
    IF c.r.effectPending
    THEN LET d == handleSubmit(c, stats)
         IN  [r |-> [d.r EXCEPT !.effectPending = FALSE,
                                !.autoSubmits = c.r.autoSubmits + 1],
              t |-> d.t]
    ELSE c

\* Render and commit of the TestRunner, with the effect on [answers]:
\* answersRef.current = answers.
commit(r) ==
    [r EXCEPT !.shownSubmitting = r.isSubmitting, !.answersRef = r.answers]

\* What follows a click handler: pending passive effects, then render and commit.
afterEvent(c, stats) ==
    LET d == timerEffect(c, stats) IN [r |-> commit(d.r), t |-> d.t]

\* The timeouts after an interval callback has run.
aged(t) == [i \in DOMAIN t |-> [t[i] EXCEPT !.age = @ + 1]]

\* An interval callback can run before every pending timeout fires: a timeout that
\* has seen age callbacks was set at least (age - 1) * TickMs ago, and the next
\* callback comes TickMs later.
tickBeforeTimeouts(t) == \A i \in DOMAIN t : t[i].age * TickMs < SubmitDelayMs

\* The confirm modal: "You have answered {answers.filter(a => a !== -1).length} out
\* of {test.questions.length}".
answeredShown(r) == Len(SelectSeq(r.answers, LAMBDA a : a # Unanswered))

totalShown(r) == Len(r.test.questions)

\* handleSelect writing to the first slot instead of the slot of the cursor.
handleSelectFirstSlot(r, idx) ==
    [r EXCEPT !.answers = [r.answers EXCEPT ![1] = idx]]

\* handleSelect(idx)
handleSelect(r, idx) ==
    [r EXCEPT !.answers = [r.answers EXCEPT ![r.currentQ + 1] = idx]]

\* The else branch without setIsSubmitting(false).
missingOnFinishKeepsSubmitting(r) == r

\* The else branch of handleSubmit after its await: console.error("onFinish prop
\* missing"); setIsSubmitting(false)
missingOnFinish(r) == [r EXCEPT !.isSubmitting = FALSE]

\* ---------------------------------------------------------------- App
\* The TestRunner kept mounted (hidden) when activeTest becomes null.
unmountKeepsState(r) == r

\* if (activeTest) return <TestRunner .../>: with activeTest null the TestRunner is
\* not rendered, which unmounts it and discards its hooks.
unmount(r) == Unmounted

\* <TestRunner key={activeTest.id} .../>: a TestRunner that is mounted with the same
\* key is kept, with its hooks, and gets the new props; otherwise a new one is mounted.
mountRunner(prev, n, test, hasOnFinish) ==
    IF prev.mounted /\ prev.test.id = test.id
    THEN [prev EXCEPT !.test = test, !.onFinish = hasOnFinish]
    ELSE InitialRunner(n, test, hasOnFinish)

\* handleTestComplete without the increment of testsTaken.
handleTestCompleteUncounted(stats, testId, score, total) ==
    [testsTaken |-> stats.testsTaken,
     questionsAttempted |-> stats.questionsAttempted + total,
     correctAnswers |-> stats.correctAnswers + score,
     history |-> Append(stats.history, [testId |-> testId, score |-> score, total |-> total])]

\* handleTestComplete(score, total) of the App render whose userStats is stats and
\* whose activeTest has the id testId: the stats it saves.
handleTestComplete(stats, testId, score, total) ==
    [testsTaken |-> stats.testsTaken + 1,
     questionsAttempted |-> stats.questionsAttempted + total,
     correctAnswers |-> stats.correctAnswers + score,
     history |-> Append(stats.history, [testId |-> testId, score |-> score, total |-> total])]

NoEmission == [n |-> 0, score |-> 0, total |-> 0]

\* ---------------------------------------------------------------- actions
Init ==
    /\ view = "dashboard"
    /\ userStats = EmptyStats
    /\ activeTest = NoTest
    /\ runner = Unmounted
    /\ timeouts = <<>>
    /\ attempts = 0
    /\ started = [a \in 1..MaxAttempts |-> NoTest]
    /\ emissions = [a \in 1..MaxAttempts |-> NoEmission]
    /\ cancelled = {}
    /\ catalog = <<>>
    /\ pyqPapers = <<>>
    /\ mockTests = <<>>
    /\ alerted = {}

\* Sidebar / MobileNav: onChange={setView}; rendered only when no Test is active.
ChangeView(s) ==
    /\ activeTest = NoTest
    /\ view # s
    /\ view' = s
    /\ UNCHANGED <<userStats, activeTest, runner, timeouts, attempts, started, emissions, cancelled, catalogVars>>

\* setActiveTest(test) and the mount of <TestRunner key={test.id} .../>; at most
\* limit Attempts are started.
Mount(test, hasOnFinish, limit) ==
    /\ activeTest = NoTest
    /\ attempts < limit
    /\ activeTest' = test
    /\ attempts' = attempts + 1
    /\ started' = [started EXCEPT ![attempts + 1] = test]
    /\ runner' = mountRunner(runner, attempts + 1, test, hasOnFinish)
    /\ UNCHANGED <<view, userStats, timeouts, emissions, cancelled, catalogVars>>

\* renderMocks: onClick={() => setActiveTest(test)}
StartMock(test, hasOnFinish, limit) ==
    /\ view = "mocks"
    /\ Mount(test, hasOnFinish, limit)

\* handlePracticeQuestion(q)
StartPractice(test, hasOnFinish, limit) ==
    /\ view = "practice"
    /\ Mount(test, hasOnFinish, limit)

\* A click on an option: handleSelect(idx), idx an index of the options shown.
Select(idx) ==
    /\ runner.mounted
    /\ idx \in 0..(runner.test.questions[runner.currentQ + 1].options - 1)
    /\ LET c == afterEvent([r |-> handleSelect(runner, idx), t |-> timeouts], userStats)
       IN  runner' = c.r /\ timeouts' = c.t
    /\ UNCHANGED <<view, userStats, activeTest, attempts, started, emissions, cancelled, catalogVars>>

\* Previous button: disabled={currentQ === 0}; setCurrentQ(prev => prev - 1)
Previous ==
    /\ runner.mounted
    /\ runner.currentQ # 0
    /\ LET c == afterEvent([r |-> [runner EXCEPT !.currentQ = runner.currentQ - 1],
                            t |-> timeouts], userStats)
       IN  runner' = c.r /\ timeouts' = c.t
    /\ UNCHANGED <<view, userStats, activeTest, attempts, started, emissions, cancelled, catalogVars>>

\* "Save & Next" without the test of currentQ against the last question.
SaveAndNextUnclamped ==
    /\ runner.mounted
    /\ ~runner.shownSubmitting
    /\ LET c == afterEvent([r |-> [runner EXCEPT !.currentQ = runner.currentQ + 1],
                            t |-> timeouts], userStats)
       IN  runner' = c.r /\ timeouts' = c.t
    /\ UNCHANGED <<view, userStats, activeTest, attempts, started, emissions, cancelled, catalogVars>>

\* "Save & Next" / "Save & Submit" button: disabled={isSubmitting}
SaveAndNext ==
    /\ runner.mounted
    /\ ~runner.shownSubmitting
    /\ \/ runner.currentQ < Len(runner.test.questions) - 1
       \/ ~runner.showConfirmModal
    /\ LET r1 == IF runner.currentQ < Len(runner.test.questions) - 1
                 THEN [runner EXCEPT !.currentQ = runner.currentQ + 1]
                 ELSE [runner EXCEPT !.showConfirmModal = TRUE]
           c == afterEvent([r |-> r1, t |-> timeouts], userStats)
       IN  runner' = c.r /\ timeouts' = c.t
    /\ UNCHANGED <<view, userStats, activeTest, attempts, started, emissions, cancelled, catalogVars>>

\* Palette button idx: setCurrentQ(idx); one button per question of the Test.
GoTo(idx) ==
    /\ runner.mounted
    /\ idx \in 0..(Len(runner.test.questions) - 1)
    /\ idx # runner.currentQ
    /\ LET c == afterEvent([r |-> [runner EXCEPT !.currentQ = idx], t |-> timeouts],
                           userStats)
       IN  runner' = c.r /\ timeouts' = c.t
    /\ UNCHANGED <<view, userStats, activeTest, attempts, started, emissions, cancelled, catalogVars>>

\* "Submit Test" calling handleSubmit() without the confirmation.
RequestSubmitUnconfirmed ==
    /\ runner.mounted
    /\ ~runner.shownSubmitting
    /\ ~runner.showConfirmModal
    /\ LET c == afterEvent(handleSubmit([r |-> runner, t |-> timeouts], userStats), userStats)
       IN  runner' = c.r /\ timeouts' = c.t
    /\ UNCHANGED <<view, userStats, activeTest, attempts, started, emissions, cancelled, catalogVars>>

\* "Submit Test" button: disabled={isSubmitting}; setShowConfirmModal(true)
RequestSubmit ==
    /\ runner.mounted
    /\ ~runner.shownSubmitting
    /\ ~runner.showConfirmModal
    /\ LET c == afterEvent([r |-> [runner EXCEPT !.showConfirmModal = TRUE],
                            t |-> timeouts], userStats)
       IN  runner' = c.r /\ timeouts' = c.t
    /\ UNCHANGED <<view, userStats, activeTest, attempts, started, emissions, cancelled, catalogVars>>

\* The modal's Cancel button: setShowConfirmModal(false)
DismissConfirm ==
    /\ runner.mounted
    /\ runner.showConfirmModal
    /\ LET c == afterEvent([r |-> [runner EXCEPT !.showConfirmModal = FALSE],
                            t |-> timeouts], userStats)
       IN  runner' = c.r /\ timeouts' = c.t
    /\ UNCHANGED <<view, userStats, activeTest, attempts, started, emissions, cancelled, catalogVars>>

\* The modal's "Submit Now" button: handleSubmit().  When the guard of handleSubmit
\* returns, no state is set and nothing is rendered.
SubmitNow ==
    /\ runner.mounted
    /\ runner.showConfirmModal
    /\ IF submitGuard(runner)
       THEN UNCHANGED <<runner, timeouts>>
       ELSE LET c == afterEvent(handleSubmit([r |-> [runner EXCEPT !.manual = TRUE],
                                              t |-> timeouts], userStats),
                                userStats)
            IN  runner' = c.r /\ timeouts' = c.t
    /\ UNCHANGED <<view, userStats, activeTest, attempts, started, emissions, cancelled, catalogVars>>

\* The X button: onCancel = () => setActiveTest(null).  The effects still pending run
\* before the render that unmounts the TestRunner; the unmount clears the interval.
Cancel ==
    /\ runner.mounted
    /\ activeTest' = NoTest
    /\ timeouts' = timerEffect([r |-> runner, t |-> timeouts], userStats).t
    /\ runner' = unmount(runner)
    /\ cancelled' = cancelled \cup {[attempt |-> runner.id, submitting |-> runner.isSubmitting]}
    /\ UNCHANGED <<view, userStats, attempts, started, emissions, catalogVars>>

\* The interval callback lowering timeLeft by two.
TickByTwo ==
    /\ runner.mounted
    /\ runner.interval
    /\ runner.timeLeft > -MaxOvershoot
    /\ tickBeforeTimeouts(timeouts)
    /\ timeouts' = aged(timeouts)
    /\ runner' = commit([runner EXCEPT !.timeLeft = runner.timeLeft - 2,
                                       !.ticks = runner.ticks + 1,
                                       !.interval = armsInterval(runner.timeLeft - 2),
                                       !.effectPending = ~armsInterval(runner.timeLeft - 2)])
    /\ UNCHANGED <<view, userStats, activeTest, attempts, started, emissions, cancelled, catalogVars>>

\* The interval callback: setTimeLeft(t => t - 1), and the render it causes.  The
\* effect of that render re-arms the interval unless timeLeft is 0; with timeLeft
\* = 0 it is the timer effect, run by TimerExpired.  A pending timeout of 1500 ms
\* fires before the third callback of a 1000 ms interval.
Tick ==
    /\ runner.mounted
    /\ runner.interval
    /\ runner.timeLeft > -MaxOvershoot
    /\ tickBeforeTimeouts(timeouts)
    /\ timeouts' = aged(timeouts)
    /\ runner' = commit([runner EXCEPT !.timeLeft = runner.timeLeft - 1,
                                       !.ticks = runner.ticks + 1,
                                       !.interval = armsInterval(runner.timeLeft - 1),
                                       !.effectPending = ~armsInterval(runner.timeLeft - 1)])
    /\ UNCHANGED <<view, userStats, activeTest, attempts, started, emissions, cancelled, catalogVars>>

\* The scheduler runs the timer effect of the render with timeLeft = 0.
TimerExpired ==
    /\ runner.mounted
    /\ runner.effectPending
    /\ LET c == timerEffect([r |-> runner, t |-> timeouts], userStats)
       IN  runner' = c.r /\ timeouts' = c.t
    /\ UNCHANGED <<view, userStats, activeTest, attempts, started, emissions, cancelled, catalogVars>>

\* The scheduler renders the TestRunner after isSubmitting was set outside a click.
Render ==
    /\ runner.mounted
    /\ runner.shownSubmitting # runner.isSubmitting
    /\ LET c == afterEvent([r |-> runner, t |-> timeouts], userStats)
       IN  runner' = c.r /\ timeouts' = c.t
    /\ UNCHANGED <<view, userStats, activeTest, attempts, started, emissions, cancelled, catalogVars>>

\* Complete with the scoring loop moved after the await: the score is that of the
\* answers at the time of the completion.
CompleteScoringLate ==
    /\ timeouts # <<>>
    /\ Head(timeouts).onFinish
    /\ LET k == Head(timeouts)
           late == IF runner.mounted /\ runner.id = k.attempt
                   THEN ScoreFrom(runner.answers, runner.test.questions, 1)
                   ELSE k.score
       IN  /\ emissions' = [emissions EXCEPT ![k.attempt] =
                [n |-> @.n + 1, score |-> late, total |-> k.total]]
           /\ userStats' = handleTestComplete(k.stats, k.testId, late, k.total)
           /\ timeouts' = timerEffect([r |-> runner, t |-> Tail(timeouts)], userStats).t
    /\ activeTest' = NoTest
    /\ view' = "progress"
    /\ runner' = unmount(runner)
    /\ UNCHANGED <<attempts, started, cancelled, catalogVars>>

\* The oldest timeout fires and handleSubmit continues after its await, with
\* onFinish: onFinish(score, total) is handleTestComplete, which saves the stats,
\* sets activeTest to null and the view to "progress"; the effects still pending
\* run before the render that follows, which unmounts the TestRunner that is mounted.
Complete ==
    /\ timeouts # <<>>
    /\ Head(timeouts).onFinish
    /\ LET k == Head(timeouts)
       IN  /\ emissions' = [emissions EXCEPT ![k.attempt] =
                [n |-> @.n + 1, score |-> k.score, total |-> k.total]]
           /\ userStats' = handleTestComplete(k.stats, k.testId, k.score, k.total)
           /\ timeouts' = timerEffect([r |-> runner, t |-> Tail(timeouts)], userStats).t
    /\ activeTest' = NoTest
    /\ view' = "progress"
    /\ runner' = unmount(runner)
    /\ UNCHANGED <<attempts, started, cancelled, catalogVars>>

\* The oldest timeout fires and handleSubmit continues after its await, without
\* onFinish; setIsSubmitting does nothing when the TestRunner is no longer mounted.
CompleteNoHandler ==
    /\ timeouts # <<>>
    /\ ~Head(timeouts).onFinish
    /\ timeouts' = Tail(timeouts)
    /\ runner' = IF runner.mounted /\ runner.id = Head(timeouts).attempt
                 THEN missingOnFinish(runner)
                 ELSE runner
    /\ UNCHANGED <<view, userStats, activeTest, attempts, started, emissions, cancelled, catalogVars>>

\* The steps of a mounted TestRunner and of its timers.
RunnerStep ==
    \/ \E idx \in 0..1 : Select(idx)
    \/ Previous
    \/ SaveAndNext
    \/ \E idx \in 0..1 : GoTo(idx)
    \/ RequestSubmit
    \/ DismissConfirm
    \/ SubmitNow
    \/ Cancel
    \/ Tick
    \/ TimerExpired
    \/ Render

\* The App as written always passes onFinish={handleTestComplete}; the Test it starts
\* here is the sectional mock, its duration scaled down to one minute.
HostTests == {t \in MockTests : t.durationMinutes = 1}

Next ==
    \/ \E s \in Sections : ChangeView(s)
    \/ \E t \in HostTests : StartMock(t, TRUE, MaxAttempts)
    \/ RunnerStep
    \/ Complete

Spec == Init /\ [][Next]_vars

\* The scheduling of the browser and of React: an armed interval runs its callback, a
\* pending passive effect is run, and a timeout that was set fires.
Scheduling == WF_vars(Tick) /\ WF_vars(TimerExpired) /\ WF_vars(Complete)

\* The App with its timers scheduled fairly; the user may click or not.
SpecLive == Init /\ [][Next]_vars /\ Scheduling

\* One TestRunner, mounted with any of the Tests and with or without onFinish.
NextEngine ==
    \/ \E s \in Sections : ChangeView(s)
    \/ \E t \in MockTests, h \in BOOLEAN : StartMock(t, h, 1)
    \/ \E t \in PracticeTests, h \in BOOLEAN : StartPractice(t, h, 1)
    \/ RunnerStep
    \/ Complete
    \/ CompleteNoHandler

SpecEngine == Init /\ [][NextEngine]_vars

\* handleSelect as an operation of the engine, called with any number: the code
\* checks nothing.
SelectRaw(idx) ==
    /\ runner.mounted
    /\ LET c == afterEvent([r |-> handleSelect(runner, idx), t |-> timeouts], userStats)
       IN  runner' = c.r /\ timeouts' = c.t
    /\ UNCHANGED <<view, userStats, activeTest, attempts, started, emissions, cancelled, catalogVars>>

RawIndices == (-2)..3

NextApi ==
    \/ NextEngine
    \/ \E idx \in RawIndices : SelectRaw(idx)

SpecApi == Init /\ [][NextApi]_vars

\* ---------------------------------------------------------------- catalog
\* A Question of the catalog, as far as processQuestions and startPyqTest read it.
\* year and slot are optional: "" stands for a missing (or empty) field.
CatalogQuestion(id, category, year, slot) ==
    [id |-> id, category |-> category, year |-> year, slot |-> slot,
     correctAnswer |-> 0, options |-> 2]

\* q.year || "Unknown"
yearOf(q) == IF q.year = "" THEN "Unknown" ELSE q.year

\* q.slot || "Slot 1"
slotOf(q) == IF q.slot = "" THEN "Slot 1" ELSE q.slot

\* The key made of the year only.
paperKeyYearOnly(q) == yearOf(q)

\* const key = `${year}-${slot}`
paperKey(q) == yearOf(q) \o "-" \o slotOf(q)

\* pyqMap with the year and slot of a descriptor taken from the question as they are,
\* without the defaults.
pyqMapRawFields(allQuestions) ==
    LET isFirst(i) == \A j \in 1..(i - 1) : paperKey(allQuestions[j]) # paperKey(allQuestions[i])
        firsts == SelectSeq([i \in DOMAIN allQuestions |-> i], isFirst)
    IN  [n \in DOMAIN firsts |->
            LET q == allQuestions[firsts[n]]
            IN  [id |-> paperKey(q), year |-> q.year, slot |-> q.slot,
                 count |-> Cardinality({j \in DOMAIN allQuestions :
                                           paperKey(allQuestions[j]) = paperKey(q)})]]

\* pyqMap after allQuestions.forEach(...): one entry per key, in the order in which
\* the keys first occur (the insertion order of the Map), each with its key as id,
\* the year and slot of the first question of the key, and as count the number of
\* questions of the key (one count++ per question).
pyqMap(allQuestions) ==
    LET isFirst(i) == \A j \in 1..(i - 1) : paperKey(allQuestions[j]) # paperKey(allQuestions[i])
        firsts == SelectSeq([i \in DOMAIN allQuestions |-> i], isFirst)
    IN  [n \in DOMAIN firsts |->
            LET q == allQuestions[firsts[n]]
            IN  [id |-> paperKey(q), year |-> yearOf(q), slot |-> slotOf(q),
                 count |-> Cardinality({j \in DOMAIN allQuestions :
                                           paperKey(allQuestions[j]) = paperKey(q)})]]

\* The year and slot strings of the model in the order of
\* String.prototype.localeCompare: digits before letters.
Collation == <<"2022", "2023", "2024", "Slot 1", "Slot 2", "Slot 3", "Unknown">>

rank(str) == CHOOSE i \in DOMAIN Collation : Collation[i] = str

\* a.localeCompare(b): negative, zero or positive
localeCompare(a, b) ==
    IF rank(a) < rank(b) THEN -1 ELSE IF rank(a) > rank(b) THEN 1 ELSE 0

\* The comparator with the years compared in ascending order.
comparePapersAscending(a, b) ==
    IF localeCompare(a.year, b.year) # 0
    THEN localeCompare(a.year, b.year)
    ELSE localeCompare(a.slot, b.slot)

\* (a, b) => b.year.localeCompare(a.year) || a.slot.localeCompare(b.slot)
comparePapers(a, b) ==
    IF localeCompare(b.year, a.year) # 0
    THEN localeCompare(b.year, a.year)
    ELSE localeCompare(a.slot, b.slot)

\* Array.prototype.sort with comparePapers: the stable sort, by insertion.
RECURSIVE insertPaper(_, _)
insertPaper(sorted, p) ==
    IF sorted = <<>> THEN <<p>>
    ELSE IF comparePapers(p, Head(sorted)) < 0
         THEN <<p>> \o sorted
         ELSE <<Head(sorted)>> \o insertPaper(Tail(sorted), p)

RECURSIVE sortPapers(_)
sortPapers(s) ==
    IF s = <<>> THEN <<>>
    ELSE insertPaper(sortPapers(SubSeq(s, 1, Len(s) - 1)), s[Len(s)])

\* Part 1 of processQuestions: the papers, grouped and sorted.
buildPaperDescriptors(allQuestions) == sortPapers(pyqMap(allQuestions))

\* The caps of the full mock: slice(0, 24), slice(0, 20), slice(0, 22)
VarcCap == 24
DilrCap == 20
QuantCap == 22
\* fullMockQuestions.length > 5
FullMockMin == 5
\* durationMinutes of the full mock, of a sectional mock and of a PYQ paper
FullMockMinutes == 120
SectionalMinutes == 40
PyqMinutes == 60

Min(a, b) == IF a < b THEN a ELSE b

\* allQuestions.filter(q => q.category === c)
filterCategory(allQuestions, c) == SelectSeq(allQuestions, LAMBDA q : q.category = c)

\* array.slice(0, n)
slice(s, n) == SubSeq(s, 1, Min(n, Len(s)))

Reverse(s) == [i \in DOMAIN s |-> s[Len(s) + 1 - i]]

Rotate(s, k) == [i \in DOMAIN s |-> s[((i - 1 + k) % Len(s)) + 1]]

\* shuffle(array) = array.sort(() => Math.random() - 0.5): some permutation of the
\* array.  The permutations followed are the rotations by up to MaxShift and their
\* reversals, which are all the permutations of an array of up to MaxShift + 1
\* elements (MaxShift <= 2).
Shuffles(s) ==
    IF s = <<>> THEN {<<>>}
    ELSE UNION {{Rotate(s, k), Reverse(Rotate(s, k))} : k \in 0..Min(MaxShift, Len(s) - 1)}

\* The selection without the caps.
fullMockQuestionsUncapped(varc, dilr, quant) == varc \o dilr \o quant

\* fullMockQuestions, from the shuffled copies of the three category lists.
fullMockQuestions(varc, dilr, quant) ==
    slice(varc, VarcCap) \o slice(dilr, DilrCap) \o slice(quant, QuantCap)

\* The fallback taken below 5 questions instead of up to 5.
finalQuestionsBelowMin(allQuestions, selection) ==
    IF Len(selection) >= FullMockMin THEN selection ELSE allQuestions

\* finalQuestions = fullMockQuestions.length > 5 ? fullMockQuestions : allQuestions
finalQuestions(allQuestions, selection) ==
    IF Len(selection) > FullMockMin THEN selection ELSE allQuestions

\* buildMocks with the category lists shuffled in place (shuffle(varcQs) instead of
\* shuffle([...varcQs])): the sectional mocks get the shuffled lists.
buildMocksShuffledInPlace(allQuestions, varc, dilr, quant) ==
    LET fullMock == [id |-> "mock-full-1", durationMinutes |-> FullMockMinutes,
                     questions |-> finalQuestions(allQuestions,
                                                  fullMockQuestions(varc, dilr, quant)),
                     type |-> "MOCK"]
        quantMock == [id |-> "mock-quant-1", durationMinutes |-> SectionalMinutes,
                      questions |-> quant, type |-> "MOCK"]
        varcMock == [id |-> "mock-varc-1", durationMinutes |-> SectionalMinutes,
                     questions |-> varc, type |-> "MOCK"]
        dilrMock == [id |-> "mock-dilr-1", durationMinutes |-> SectionalMinutes,
                     questions |-> dilr, type |-> "MOCK"]
    IN  SelectSeq(<<fullMock, quantMock, varcMock, dilrMock>>,
                  LAMBDA t : Len(t.questions) > 0)

\* buildMocks without the filter on questions.length.
buildMocksUnfiltered(allQuestions, varc, dilr, quant) ==
    LET fullMock == [id |-> "mock-full-1", durationMinutes |-> FullMockMinutes,
                     questions |-> finalQuestions(allQuestions,
                                                  fullMockQuestions(varc, dilr, quant)),
                     type |-> "MOCK"]
        quantMock == [id |-> "mock-quant-1", durationMinutes |-> SectionalMinutes,
                      questions |-> filterCategory(allQuestions, "Quant"), type |-> "MOCK"]
        varcMock == [id |-> "mock-varc-1", durationMinutes |-> SectionalMinutes,
                     questions |-> filterCategory(allQuestions, "VARC"), type |-> "MOCK"]
        dilrMock == [id |-> "mock-dilr-1", durationMinutes |-> SectionalMinutes,
                     questions |-> filterCategory(allQuestions, "DILR"), type |-> "MOCK"]
    IN  <<fullMock, quantMock, varcMock, dilrMock>>

\* Part 2 of processQuestions: the four mocks, those without questions left out.
buildMocks(allQuestions, varc, dilr, quant) ==
    LET fullMock == [id |-> "mock-full-1", durationMinutes |-> FullMockMinutes,
                     questions |-> finalQuestions(allQuestions,
                                                  fullMockQuestions(varc, dilr, quant)),
                     type |-> "MOCK"]
        quantMock == [id |-> "mock-quant-1", durationMinutes |-> SectionalMinutes,
                      questions |-> filterCategory(allQuestions, "Quant"), type |-> "MOCK"]
        varcMock == [id |-> "mock-varc-1", durationMinutes |-> SectionalMinutes,
                     questions |-> filterCategory(allQuestions, "VARC"), type |-> "MOCK"]
        dilrMock == [id |-> "mock-dilr-1", durationMinutes |-> SectionalMinutes,
                     questions |-> filterCategory(allQuestions, "DILR"), type |-> "MOCK"]
    IN  SelectSeq(<<fullMock, quantMock, varcMock, dilrMock>>,
                  LAMBDA t : Len(t.questions) > 0)

\* The filter without the defaults of year and slot.
paperQuestionsExact(allQuestions, year, slot) ==
    SelectSeq(allQuestions, LAMBDA q : q.year = year /\ q.slot = slot)

\* startPyqTest: questions.filter(q => (q.year || "Unknown") === year &&
\* (q.slot || "Slot 1") === slot)
paperQuestions(allQuestions, year, slot) ==
    SelectSeq(allQuestions, LAMBDA q : yearOf(q) = year /\ slotOf(q) = slot)

\* The values of the optional fields of a fetched Question ("" = missing).
YearValues == {"", "2023", "2024"}

SlotValues == {"", "Slot 1", "Slot 2"}

CategoryCycle == <<"Quant", "VARC", "DILR">>

\* The catalogs of up to MaxPaperQuestions questions with any years and slots, the
\* categories in turn.
PaperCatalogs ==
    UNION {{[i \in 1..n |-> CatalogQuestion(i, CategoryCycle[((i - 1) % 3) + 1],
                                            f[i][1], f[i][2])]
               : f \in [1..n -> YearValues \X SlotValues]}
           : n \in 0..MaxPaperQuestions}

\* n questions of one category with the ids first + 1 .. first + n, untagged.
Block(category, first, n) == [i \in 1..n |-> CatalogQuestion(first + i, category, "", "")]

\* The sizes of a category: few, or around the cap of the full mock.
Counts(cap) == (0..MaxFew) \cup (cap..(cap + MaxOver))

\* The catalogs with given numbers of questions per category: the Quant questions,
\* then the DILR questions, then the VARC questions.
CountCatalogs ==
    {Block("Quant", 0, q) \o Block("DILR", q, d) \o Block("VARC", q + d, v)
        : q \in Counts(QuantCap), d \in Counts(DilrCap), v \in Counts(VarcCap)}

Catalogs == PaperCatalogs \cup CountCatalogs

HostCatalogs == {data \in PaperCatalogs : Len(data) <= MaxHostQuestions}

\* fetchQuestions after its awaits: setQuestions(data); processQuestions(data).  It
\* runs once, from the effect of the App's first render.
fetchQuestions(data) ==
    /\ catalog = <<>>
    /\ mockTests = <<>>
    /\ catalog' = data
    /\ pyqPapers' = buildPaperDescriptors(data)
    /\ \E varc \in Shuffles(filterCategory(data, "VARC")),
          dilr \in Shuffles(filterCategory(data, "DILR")),
          quant \in Shuffles(filterCategory(data, "Quant")) :
            mockTests' = buildMocks(data, varc, dilr, quant)
    /\ UNCHANGED <<view, userStats, activeTest, runner, timeouts, attempts, started,
                   emissions, cancelled, alerted>>

\* startPyqTest without the test of paperQuestions.length.
startPyqTestUnchecked(year, slot) ==
    /\ Mount([id |-> "pyq-" \o year \o "-" \o slot, durationMinutes |-> PyqMinutes,
              questions |-> paperQuestions(catalog, year, slot), type |-> "PYQ"], TRUE, 1)

\* startPyqTest(year, slot): alert and return when no question matches, else
\* setActiveTest(test) and the mount of the TestRunner.
startPyqTest(year, slot) ==
    IF Len(paperQuestions(catalog, year, slot)) = 0
    THEN /\ activeTest = NoTest
         /\ alerted' = alerted \cup {"No questions found for this slot."}
         /\ UNCHANGED <<view, userStats, activeTest, runner, timeouts, attempts, started,
                        emissions, cancelled, catalog, pyqPapers, mockTests>>
    ELSE Mount([id |-> "pyq-" \o year \o "-" \o slot, durationMinutes |-> PyqMinutes,
                questions |-> paperQuestions(catalog, year, slot), type |-> "PYQ"], TRUE, 1)

\* renderPYQ: onClick={() => startPyqTest(paper.year, paper.slot)}
StartPyq(paper) ==
    /\ view = "pyq"
    /\ startPyqTest(paper.year, paper.slot)

\* startPyqTest as an operation of the host, called with any year and slot.
StartPyqRaw(year, slot) == startPyqTest(year, slot)

\* durationMinutes of a practice Test.
PracticeMinutes == 5

\* renderPractice lists questions.slice(0, 10).
PracticeShown == 10

\* handlePracticeQuestion with the duration of a sectional mock.
handlePracticeQuestionSectional(q) ==
    Mount([id |-> "practice-" \o ToString(q.id), durationMinutes |-> SectionalMinutes,
           questions |-> <<q>>, type |-> "PRACTICE"], TRUE, 1)

\* handlePracticeQuestion(q): setActiveTest(test) and the mount of the TestRunner.
handlePracticeQuestion(q) ==
    Mount([id |-> "practice-" \o ToString(q.id), durationMinutes |-> PracticeMinutes,
           questions |-> <<q>>, type |-> "PRACTICE"], TRUE, 1)

\* renderPractice: onClick={() => !q.isPremium && handlePracticeQuestion(q)} on one
\* of the questions listed; no fetched Question is premium.
PracticeQuestion(i) ==
    /\ view = "practice"
    /\ i \in 1..Min(PracticeShown, Len(catalog))
    /\ handlePracticeQuestion(catalog[i])

YearArgs == {"2022", "2023", "2024", "Unknown"}

SlotArgs == {"Slot 1", "Slot 2", "Slot 3"}

\* The partitioner alone: a catalog is fetched and processed.
NextPartition == \E data \in Catalogs : fetchQuestions(data)

SpecPartition == Init /\ [][NextPartition]_vars

\* The host with a fetched catalog of papers: it starts the papers and mocks made of
\* the catalog, once, and cancels them.
NextCatalog ==
    \/ \E s \in Sections : ChangeView(s)
    \/ \E data \in HostCatalogs : fetchQuestions(data)
    \/ \E i \in DOMAIN pyqPapers : StartPyq(pyqPapers[i])
    \/ \E year \in YearArgs, slot \in SlotArgs : StartPyqRaw(year, slot)
    \/ \E i \in DOMAIN mockTests : StartMock(mockTests[i], TRUE, 1)
    \/ \E i \in DOMAIN catalog : PracticeQuestion(i)
    \/ Cancel

SpecCatalog == Init /\ [][NextCatalog]_vars

\* ---------------------------------------------------------------- claims
Attempts == 1..MaxAttempts

\* The continuations of Attempt a that are pending.
PendingOf(a) == {i \in DOMAIN timeouts : timeouts[i].attempt = a}

\* The continuations a step adds: what timeouts' holds after timeouts (aged or not),
\* or after its tail when the step ran the oldest one.
IsPrefix(s, t) == Len(s) <= Len(t) /\ \A i \in DOMAIN s : s[i] = t[i]

Added ==
    IF IsPrefix(timeouts, timeouts') \/ timeouts' = aged(timeouts)
    THEN {timeouts'[i] : i \in (Len(timeouts) + 1)..Len(timeouts')}
    ELSE {timeouts'[i] : i \in Len(timeouts)..Len(timeouts')}

\* The positions of an answer buffer that hold the correct answer of their question.
CorrectSlots(answers, questions) ==
    {j \in DOMAIN questions : answers[j] = questions[j].correctAnswer}

AnsweredSlots(answers) == {j \in DOMAIN answers : answers[j] # Unanswered}

\* C1: for every Attempt, at most one (score, total) emission reaches the Session
\* Host, whatever submit requests were made.
C1_AtMostOneEmission == \A a \in Attempts : emissions[a].n <= 1

\* C2: the timer reaching zero and a manual submit trigger the same submit path and
\* only the first one submits: no Attempt ever has two computed scores waiting to be
\* emitted.
C2_OneSubmissionPerAttempt == \A a \in Attempts : Cardinality(PendingOf(a)) <= 1

\* C3: every (score, total) that is computed or emitted has 0 <= score <= total, and
\* total is the number of questions of the Attempt's Test, however many questions
\* were answered.
C3_ScoreWithinTotal ==
    /\ \A i \in DOMAIN timeouts :
          /\ 0 <= timeouts[i].score /\ timeouts[i].score <= timeouts[i].total
          /\ timeouts[i].total = Len(started[timeouts[i].attempt].questions)
    /\ \A a \in Attempts : emissions[a].n > 0 =>
          /\ 0 <= emissions[a].score /\ emissions[a].score <= emissions[a].total
          /\ emissions[a].total = Len(started[a].questions)

\* C3 witness: a two-question Test was emitted with one correct answer.
C3_Witness ==
    \E a \in Attempts :
        emissions[a].n = 1 /\ emissions[a].score = 1 /\ emissions[a].total = 2

C5_TimerCountdown ==
    runner.mounted =>
        /\ runner.timeLeft >= 0
        /\ runner.timeLeft = 60 * runner.test.durationMinutes - runner.ticks
        /\ runner.timeLeft = 0 => ~runner.interval
        /\ runner.autoSubmits = IF runner.timeLeft = 0 /\ ~runner.effectPending THEN 1 ELSE 0
        /\ (runner.autoSubmits = 1 /\ ~runner.manual) =>
              IF runner.onFinish
              THEN runner.isSubmitting /\ Cardinality(PendingOf(runner.id)) = 1
              ELSE Cardinality(PendingOf(runner.id)) <= 1

\* C5 witness: 60 ticks of a one-minute Test that was never submitted by hand, and
\* the automatic submit.
C5_Witness ==
    /\ runner.mounted /\ runner.test.durationMinutes = 1
    /\ runner.ticks = 60 /\ runner.timeLeft = 0
    /\ runner.autoSubmits = 1 /\ ~runner.manual
    /\ runner.isSubmitting /\ Cardinality(PendingOf(runner.id)) = 1

\* The delayed submission of the mounted Attempt completes without onFinish.
CompletesWithoutHandler ==
    /\ timeouts # <<>>
    /\ ~Head(timeouts).onFinish
    /\ timeouts' = Tail(timeouts)
    /\ runner.mounted
    /\ runner.id = Head(timeouts).attempt

C7_CancelledRunningNeverEmits ==
    \A c \in cancelled : ~c.submitting => emissions[c.attempt].n = 0

\* C8: the score of an Attempt cancelled after its submit was accepted is pending or
\* delivered, exactly once.
C8_CancelledSubmittingDeliversOnce ==
    \A c \in cancelled : c.submitting =>
        Cardinality(PendingOf(c.attempt)) + emissions[c.attempt].n = 1

\* C9: every start yields a fresh Attempt: cursor 0, every slot unanswered,
\* remaining-seconds 60 * durationMinutes, Running, confirmation not shown, bound to
\* the Test that was started.
C9_StartIsFresh ==
    [][attempts' # attempts =>
          /\ runner'.mounted /\ runner'.id = attempts'
          /\ runner'.test = activeTest' /\ activeTest' # NoTest
          /\ runner'.currentQ = 0
          /\ Len(runner'.answers) = Len(activeTest'.questions)
          /\ \A j \in DOMAIN runner'.answers :
                runner'.answers[j] = Unanswered /\ runner'.answersRef[j] = Unanswered
          /\ runner'.timeLeft = 60 * activeTest'.durationMinutes
          /\ ~runner'.isSubmitting /\ ~runner'.shownSubmitting
          /\ ~runner'.showConfirmModal]_vars

\* C9 witness: the same Test is started again after an Attempt on it that had an
\* answer and finished.
C9_Witness ==
    /\ attempts = 2 /\ runner.mounted /\ runner.id = 2
    /\ started[1].id = runner.test.id
    /\ emissions[1].n = 1 /\ emissions[1].score > 0
    /\ runner.ticks = 0 /\ runner.currentQ = 0
    /\ \A j \in DOMAIN runner.answers : runner.answers[j] = Unanswered

\* C10: selectAnswer with an index outside [0, options.length) of the current
\* question leaves the Attempt unchanged.
C10_OutOfRangeSelectRejected ==
    [][\A idx \in RawIndices :
          (/\ runner.mounted
           /\ idx \notin 0..(runner.test.questions[runner.currentQ + 1].options - 1)
           /\ SelectRaw(idx))
          => runner' = runner]_vars

\* C11: selectAnswer takes effect only while the Attempt is Running: while the
\* Attempt is Submitting no step changes an answer slot.
C11_SelectOnlyWhileRunning ==
    [][(runner.mounted /\ runner.isSubmitting /\ runner'.mounted /\ runner'.id = runner.id)
          => runner'.answers = runner.answers]_vars

\* C12: the cursor of an Attempt is always an index of a question of its Test, and
\* "next" on the last question leaves the cursor there and opens the confirmation
\* (or finds the Attempt submitted by the timer that ran out just before).
C12_CursorInRange ==
    /\ [](runner.mounted => runner.currentQ \in 0..(Len(runner.test.questions) - 1))
    /\ [][(SaveAndNext /\ runner.currentQ = Len(runner.test.questions) - 1)
             => /\ runner'.currentQ = runner.currentQ
                /\ runner'.showConfirmModal \/ runner'.isSubmitting]_vars

\* C12 witness: "next" on the last question of a two-question Test: the cursor is on
\* the last question and the confirmation is open.
C12_Witness ==
    /\ runner.mounted /\ Len(runner.test.questions) = 2
    /\ runner.currentQ = 1 /\ runner.showConfirmModal
    /\ ~runner.isSubmitting /\ runner.timeLeft > 0

\* A step leaves the Attempt with its answers, cursor, remaining-seconds and status.
SameAttemptState ==
    /\ runner'.mounted /\ runner'.id = runner.id /\ activeTest' = activeTest
    /\ runner'.answers = runner.answers
    /\ runner'.currentQ = runner.currentQ
    /\ runner'.timeLeft = runner.timeLeft
    /\ runner'.isSubmitting = runner.isSubmitting

\* C13: on a Running Attempt whose timer has not run out, requestSubmit only opens
\* the confirmation and dismissing it only closes it: answers, cursor,
\* remaining-seconds and status are unchanged, no score is computed or emitted.  The
\* confirmation shows the number of slots that are not unanswered and the number of
\* questions of the Test.
C13_RequestSubmitOnlyConfirms ==
    /\ [](runner.mounted /\ runner.showConfirmModal =>
             /\ answeredShown(runner) = Cardinality(AnsweredSlots(runner.answers))
             /\ totalShown(runner) = Len(started[runner.id].questions))
    /\ [][(RequestSubmit /\ ~runner.isSubmitting /\ ~runner.effectPending)
             => /\ runner'.showConfirmModal /\ SameAttemptState
                /\ timeouts' = timeouts /\ emissions' = emissions
                /\ userStats' = userStats]_vars
    /\ [][(DismissConfirm /\ ~runner.isSubmitting /\ ~runner.effectPending)
             => /\ ~runner'.showConfirmModal /\ SameAttemptState
                /\ timeouts' = timeouts /\ emissions' = emissions
                /\ userStats' = userStats]_vars

\* C13 witness: the confirmation is open on the first of two questions (so it was
\* opened by requestSubmit) with one question answered, and the Attempt is Running.
C13_Witness ==
    /\ runner.mounted /\ Len(runner.test.questions) = 2
    /\ runner.currentQ = 0 /\ runner.showConfirmModal
    /\ answeredShown(runner) = 1
    /\ ~runner.isSubmitting /\ timeouts = <<>> /\ runner.timeLeft > 0

\* C14: when an Attempt on test T finishes with (score, total), the host records it:
\* testsTaken increases by 1, questionsAttempted by total, correctAnswers by score,
\* one history entry with T's id, score and total is appended; afterwards no Attempt
\* is active and the view is the progress view.
C14_CompletionRecorded ==
    [][\A a \in Attempts : emissions'[a].n = emissions[a].n + 1 =>
          /\ userStats'.testsTaken = userStats.testsTaken + 1
          /\ userStats'.questionsAttempted = userStats.questionsAttempted + emissions'[a].total
          /\ userStats'.correctAnswers = userStats.correctAnswers + emissions'[a].score
          /\ userStats'.history =
                Append(userStats.history, [testId |-> started[a].id,
                                           score |-> emissions'[a].score,
                                           total |-> emissions'[a].total])
          /\ activeTest' = NoTest
          /\ view' = "progress"]_vars

\* C15: the history is append-only: every step leaves the entries recorded so far at
\* their positions with their values, and the history never gets shorter.
C15_HistoryAppendOnly == [][IsPrefix(userStats.history, userStats'.history)]_vars

\* The default-aware (year, slot) pairs present in the catalog.
PairOf(q) ==
    <<IF q.year = "" THEN "Unknown" ELSE q.year, IF q.slot = "" THEN "Slot 1" ELSE q.slot>>

Pairs == {PairOf(catalog[j]) : j \in DOMAIN catalog}

\* C16: buildPyqTest for a (year, slot) that no question of the catalog matches
\* signals NotFound: a message is shown, no Test is produced, no Attempt is created,
\* and active attempt, stats and view are unchanged.
C16_PyqNotFound ==
    [][\A year \in YearArgs, slot \in SlotArgs :
          (<<year, slot>> \notin Pairs /\ StartPyqRaw(year, slot))
          => /\ alerted' # {}
             /\ activeTest' = activeTest /\ runner' = runner
             /\ attempts' = attempts /\ started' = started
             /\ userStats' = userStats /\ view' = view]_vars

\* C16 witness: a catalog with questions is loaded, a paper that no question matches
\* was asked for, and no Attempt was created.
C16_Witness ==
    /\ catalog # <<>>
    /\ alerted # {}
    /\ activeTest = NoTest /\ ~runner.mounted /\ attempts = 0

\* Paper a comes before paper b: later year, or the same year and earlier slot.
PaperBefore(a, b) ==
    \/ rank(a.year) > rank(b.year)
    \/ a.year = b.year /\ rank(a.slot) < rank(b.slot)

\* C17: the paper descriptors are ordered by year descending and, for equal years, by
\* slot ascending; the order is strict, so it is the only one for the catalog.
C17_PapersSorted ==
    \A i, j \in DOMAIN pyqPapers : i < j => PaperBefore(pyqPapers[i], pyqPapers[j])

\* C17 witness: three papers, two of one year, from a catalog that lists them in
\* another order.
C17_Witness ==
    /\ Len(pyqPapers) = 3
    /\ pyqPapers[1].year = pyqPapers[2].year
    /\ PairOf(catalog[1]) = <<pyqPapers[3].year, pyqPapers[3].slot>>
    /\ PairOf(catalog[2]) = <<pyqPapers[2].year, pyqPapers[2].slot>>

\* C18: there is exactly one descriptor per default-aware (year, slot) pair of the
\* catalog, its count is the number of questions with that pair, and the counts sum
\* to the size of the catalog.
RECURSIVE SumCounts(_, _)
SumCounts(papers, i) ==
    IF i > Len(papers) THEN 0 ELSE papers[i].count + SumCounts(papers, i + 1)

C18_OneDescriptorPerPair ==
    /\ Len(pyqPapers) = Cardinality(Pairs)
    /\ \A pair \in Pairs :
          Cardinality({i \in DOMAIN pyqPapers :
                          <<pyqPapers[i].year, pyqPapers[i].slot>> = pair}) = 1
    /\ \A i \in DOMAIN pyqPapers :
          pyqPapers[i].count =
              Cardinality({j \in DOMAIN catalog :
                              PairOf(catalog[j]) = <<pyqPapers[i].year, pyqPapers[i].slot>>})
    /\ SumCounts(pyqPapers, 1) = Len(catalog)

\* C18 witness: a question without year, and a question without slot grouped with a
\* question of "Slot 1" of the same year.
C18_Witness ==
    /\ Len(catalog) = 3 /\ Len(pyqPapers) = 2
    /\ \E i \in DOMAIN pyqPapers : pyqPapers[i].year = "Unknown" /\ pyqPapers[i].count = 1
    /\ \E i \in DOMAIN pyqPapers : pyqPapers[i].slot = "Slot 1" /\ pyqPapers[i].count = 2
    /\ \E j, k \in DOMAIN catalog :
          /\ catalog[j].slot = "" /\ catalog[k].slot = "Slot 1"
          /\ catalog[j].year = catalog[k].year /\ catalog[j].year # ""

\* The number of questions of a category in the catalog.
InCategory(c) == Cardinality({j \in DOMAIN catalog : catalog[j].category = c})

\* The size of the capped selection.
CappedSize ==
    Min(24, InCategory("VARC")) + Min(20, InCategory("DILR")) + Min(22, InCategory("Quant"))

\* The questions of the full mock (none when the full mock has no questions).
FullMockList ==
    IF \E i \in DOMAIN mockTests : mockTests[i].id = "mock-full-1"
    THEN mockTests[CHOOSE i \in DOMAIN mockTests : mockTests[i].id = "mock-full-1"].questions
    ELSE <<>>

\* qs is a capped selection: questions of the catalog, none twice, the VARC ones,
\* then the DILR ones, then the Quant ones, as many of each as the cap allows.
IsCappedSelection(qs) ==
    /\ Len(qs) = CappedSize
    /\ \A j \in DOMAIN qs :
          /\ \E k \in DOMAIN catalog : catalog[k] = qs[j]
          /\ \A k \in DOMAIN qs : k # j => qs[k].id # qs[j].id
          /\ qs[j].category =
                IF j <= Min(24, InCategory("VARC")) THEN "VARC"
                ELSE IF j <= Min(24, InCategory("VARC")) + Min(20, InCategory("DILR"))
                     THEN "DILR" ELSE "Quant"

\* C19: when the capped selection has more than 5 questions, the full mock has exactly
\* min(24,|VARC|) + min(20,|DILR|) + min(22,|Quant|) questions: the selected VARC
\* questions, then the selected DILR questions, then the selected Quant questions.
C19_FullMockCapped ==
    (catalog # <<>> /\ CappedSize > 5) => IsCappedSelection(FullMockList)

\* C19 witness: every category has more questions than its cap, and the full mock has
\* 66 questions.
C19_Witness ==
    /\ InCategory("VARC") > 24 /\ InCategory("DILR") > 20 /\ InCategory("Quant") > 22
    /\ Len(FullMockList) = 66

\* C20: when the capped selection has 5 or fewer questions the full mock's questions
\* are the whole catalog in catalog order; with 6 or more they are the capped
\* selection.
C20_FullMockFallback ==
    catalog # <<>> =>
        IF CappedSize <= 5 THEN FullMockList = catalog
        ELSE IsCappedSelection(FullMockList)

\* C20 witness: a catalog of 5 questions that starts with its Quant questions, used
\* whole and in its order as the full mock.
C20_Witness ==
    /\ Len(catalog) = 5 /\ CappedSize = 5
    /\ catalog[1].category = "Quant" /\ InCategory("VARC") > 0
    /\ FullMockList = catalog

\* The mocks with the id given.
MocksWithId(id) == {i \in DOMAIN mockTests : mockTests[i].id = id}

\* The sectional Test with the id given holds the catalog's questions of category c,
\* all of them, in catalog order (and there is no such Test when there are none).
SectionalIsCategory(id, c) ==
    IF InCategory(c) = 0 THEN MocksWithId(id) = {}
    ELSE /\ Cardinality(MocksWithId(id)) = 1
         /\ \A i \in MocksWithId(id) :
               mockTests[i].questions = SelectSeq(catalog, LAMBDA q : q.category = c)

\* C21: each sectional Test contains exactly the catalog's questions of its category,
\* all of them, in catalog order, whatever the shuffles for the full mock did.
C21_SectionalsUnshuffled ==
    /\ SectionalIsCategory("mock-quant-1", "Quant")
    /\ SectionalIsCategory("mock-varc-1", "VARC")
    /\ SectionalIsCategory("mock-dilr-1", "DILR")

\* C21 witness: the full mock is a capped selection whose VARC questions are not in
\* catalog order (the shuffle reordered them), and the VARC sectional has them all
\* in catalog order.
C21_Witness ==
    /\ CappedSize > 5 /\ InCategory("VARC") >= 2
    /\ FullMockList[1].id > FullMockList[2].id
    /\ \E i \in MocksWithId("mock-varc-1") :
          /\ Len(mockTests[i].questions) = InCategory("VARC")
          /\ mockTests[i].questions[1].id < mockTests[i].questions[2].id

\* The place of a mock in the order of emission.
EmissionRank(id) ==
    IF id = "mock-full-1" THEN 1
    ELSE IF id = "mock-quant-1" THEN 2
    ELSE IF id = "mock-varc-1" THEN 3
    ELSE IF id = "mock-dilr-1" THEN 4 ELSE 0

\* C22: only Tests with at least one question are emitted, in the relative order full
\* mock, Quant, VARC, DILR sectional; an empty catalog yields no Test.
C22_MocksNonEmptyInOrder ==
    /\ \A i \in DOMAIN mockTests :
          /\ Len(mockTests[i].questions) >= 1
          /\ EmissionRank(mockTests[i].id) >= 1
    /\ \A i, j \in DOMAIN mockTests :
          i < j => EmissionRank(mockTests[i].id) < EmissionRank(mockTests[j].id)
    /\ catalog = <<>> => mockTests = <<>>

\* C22 witness: a catalog with DILR questions only: the full mock and the DILR
\* sectional are emitted, in this order, and nothing else.
C22_Witness ==
    /\ catalog # <<>>
    /\ InCategory("Quant") = 0 /\ InCategory("VARC") = 0
    /\ Len(mockTests) = 2
    /\ mockTests[1].id = "mock-full-1" /\ mockTests[2].id = "mock-dilr-1"

\* The catalog's questions whose year and slot, defaults applied, are those given.
Matching(year, slot) == SelectSeq(catalog, LAMBDA q : PairOf(q) = <<year, slot>>)

\* C23: startPyqTest(year, slot) for a pair some question has yields a Test of type
\* PYQ whose questions are exactly the catalog's questions with this default-aware
\* (year, slot), in catalog order.
C23_PyqTestIsPaper ==
    [][\A year \in YearArgs, slot \in SlotArgs :
          (StartPyqRaw(year, slot) /\ Matching(year, slot) # <<>>)
             => /\ activeTest' # NoTest
                /\ activeTest'.type = "PYQ"
                /\ activeTest'.questions = Matching(year, slot)
                /\ runner'.mounted /\ runner'.test = activeTest']_vars

\* C23 witness: the paper started holds a question without year and slot and a
\* question tagged with the defaults, in catalog order.
C23_Witness ==
    /\ activeTest # NoTest
    /\ activeTest.type = "PYQ"
    /\ Len(catalog) = 2
    /\ catalog[1].slot = "" /\ catalog[1].year = ""
    /\ catalog[2].slot = "Slot 1"
    /\ activeTest.questions = catalog

\* C24: handlePracticeQuestion wraps the question clicked into a Test of type PRACTICE
\* with exactly this question and 5 minutes, which the runner starts at 300 seconds.
C24_PracticeTest ==
    [][\A i \in DOMAIN catalog :
          PracticeQuestion(i)
             => /\ activeTest' # NoTest
                /\ activeTest'.type = "PRACTICE"
                /\ activeTest'.questions = <<catalog[i]>>
                /\ activeTest'.durationMinutes = 5
                /\ runner'.mounted /\ runner'.test = activeTest'
                /\ runner'.timeLeft = 300
                /\ Len(runner'.answers) = 1]_vars

\* C24 witness: the second question of a catalog is being practised.
C24_Witness ==
    /\ activeTest # NoTest
    /\ activeTest.type = "PRACTICE"
    /\ Len(catalog) = 2
    /\ activeTest.questions = <<catalog[2]>>
    /\ runner.mounted /\ runner.timeLeft = 300

\* The answer buffer of the mounted Attempt once the handlers of a step have written
\* to it.
WrittenAnswers ==
    IF runner'.mounted /\ runner'.id = runner.id THEN runner'.answers ELSE runner.answers

\* C25: a write to a position replaces what the position held, and the score computed
\* when a submit is accepted, by hand or by the timer, counts for each position the
\* last answer written to it before the submit.
C25_LastWriteScored ==
    [][/\ \A idx \in 0..1 :
             Select(idx) => runner'.answers = [runner.answers EXCEPT ![runner.currentQ + 1] = idx]
       /\ \A k \in Added :
             k.score = Cardinality(CorrectSlots(WrittenAnswers, runner.test.questions))]_vars

\* The status of Attempt a.
StatusOf(a) ==
    IF emissions[a].n > 0 THEN "Finished"
    ELSE IF PendingOf(a) # {} \/ (runner.mounted /\ runner.id = a /\ runner.isSubmitting)
         THEN "Submitting"
    ELSE IF runner.mounted /\ runner.id = a THEN "Running"
    ELSE IF a <= attempts THEN "Cancelled"
    ELSE "NotStarted"

StatusMoves ==
    {<<"NotStarted", "Running">>, <<"Running", "Submitting">>,
     <<"Submitting", "Finished">>, <<"Running", "Cancelled">>}

\* The number of submits a step accepts.
AcceptedSubmits ==
    IF IsPrefix(timeouts, timeouts') \/ timeouts' = aged(timeouts)
    THEN Len(timeouts') - Len(timeouts)
    ELSE Len(timeouts') - Len(timeouts) + 1

\* C26: the status of an Attempt only moves Running -> Submitting -> Finished or
\* Running -> Cancelled, and Submitting is entered at most once: a submit is accepted
\* only from Running, one at a time.
C26_StatusMoves ==
    [][/\ \A a \in Attempts :
             StatusOf(a)' # StatusOf(a) => <<StatusOf(a), StatusOf(a)'>> \in StatusMoves
       /\ AcceptedSubmits <= 1
       /\ \A k \in Added : StatusOf(k.attempt) = "Running"]_vars

\* The Attempts that are Running or Submitting.
ActiveAttempts == {a \in Attempts : StatusOf(a) \in {"Running", "Submitting"}}

\* C27: at most one Attempt is Running or Submitting at any time, a start takes effect
\* only when none is, and it leaves the other Attempts as they are.
C27_OneActiveAttempt ==
    /\ [](Cardinality(ActiveAttempts) <= 1)
    /\ [][attempts' # attempts =>
             /\ ActiveAttempts = {}
             /\ \A a \in Attempts : a # attempts' => StatusOf(a)' = StatusOf(a)]_vars

\* C28: an Attempt cancelled while Running is gone for good: it is not mounted, so no
\* tick lowers its remaining-seconds, no submit of it is pending and no score of it is
\* emitted.
C28_CancelStopsAttempt ==
    \A c \in cancelled : ~c.submitting =>
        /\ ~(runner.mounted /\ runner.id = c.attempt)
        /\ PendingOf(c.attempt) = {}
        /\ emissions[c.attempt].n = 0

\* A click of the TestRunner other than the X button.
OtherOperation ==
    \/ \E idx \in 0..1 : Select(idx)
    \/ Previous
    \/ SaveAndNext
    \/ \E idx \in 0..1 : GoTo(idx)
    \/ RequestSubmit
    \/ DismissConfirm
    \/ SubmitNow

\* C29: remaining-seconds of an Attempt stays within [0, 60 * durationMinutes] and
\* never increases: every tick lowers it by exactly one, and no other step of the
\* Attempt (selectAnswer, navigation, requestSubmit, dismissing, submit, the timer
\* effect, a render, a completion without handler) changes it.
C29_RemainingSeconds ==
    /\ [](runner.mounted =>
             /\ 0 <= runner.timeLeft
             /\ runner.timeLeft <= 60 * runner.test.durationMinutes)
    /\ [][(runner.mounted /\ runner'.mounted /\ runner'.id = runner.id) =>
             /\ runner'.timeLeft <= runner.timeLeft
             /\ Tick => runner'.ticks = runner.ticks + 1
             /\ runner'.ticks = runner.ticks + 1 => runner'.timeLeft = runner.timeLeft - 1
             /\ runner'.ticks # runner.ticks + 1 => runner'.timeLeft = runner.timeLeft
             /\ OtherOperation => runner'.timeLeft = runner.timeLeft]_vars

\* C29 witness: three ticks went by while an answer was selected, the cursor moved and
\* the confirmation was opened.
C29_Witness ==
    /\ runner.mounted /\ runner.test.durationMinutes = 1
    /\ runner.ticks = 3 /\ runner.timeLeft = 57
    /\ runner.currentQ = 1 /\ runner.answers[1] # Unanswered
    /\ runner.showConfirmModal /\ ~runner.isSubmitting

\* C30: selectAnswer writes the slot of the cursor and changes no other slot, nor the
\* cursor, nor remaining-seconds, nor the status (the status changes in the step of a
\* click only when the timer effect of the time that ran out runs in that step);
\* goTo, next and previous change no slot.
C30_SelectWritesOneSlot ==
    [][/\ \A idx \in 0..1 :
             Select(idx) =>
                /\ Len(runner'.answers) = Len(runner.answers)
                /\ runner'.answers[runner.currentQ + 1] = idx
                /\ \A j \in DOMAIN runner.answers :
                      j # runner.currentQ + 1 => runner'.answers[j] = runner.answers[j]
                /\ runner'.currentQ = runner.currentQ
                /\ runner'.timeLeft = runner.timeLeft
                /\ runner'.autoSubmits = runner.autoSubmits
                      => runner'.isSubmitting = runner.isSubmitting
       /\ (Previous \/ SaveAndNext \/ \E idx \in 0..1 : GoTo(idx))
             => runner'.answers = runner.answers]_vars

\* C30 witness: on a two-question Test the second slot was written with the cursor on
\* the second question, after ticks, and the first slot is still unanswered.
C30_Witness ==
    /\ runner.mounted /\ Len(runner.answers) = 2
    /\ runner.currentQ = 1 /\ runner.ticks > 0
    /\ runner.answers[1] = Unanswered /\ runner.answers[2] = 0
    /\ ~runner.isSubmitting

\* C31: the emission of one Attempt acts on that Attempt only: when it is delivered
\* while another Attempt is mounted, that Attempt stays mounted and active with its
\* state, and the history entry recorded has the id of the Test that was submitted.
C31_EmissionActsOnItsAttempt ==
    [][\A a \in Attempts : emissions'[a].n # emissions[a].n =>
          /\ Len(userStats'.history) > 0
          /\ userStats'.history[Len(userStats'.history)].testId = started[a].id
          /\ (runner.mounted /\ runner.id # a) =>
                /\ runner' = runner
                /\ activeTest' = activeTest]_vars

\* The pending submits of a step that are still pending after it, with their places:
\* a completion takes the oldest away.
KeptPlaces ==
    IF IsPrefix(timeouts, timeouts') \/ timeouts' = aged(timeouts)
    THEN {<<i, i>> : i \in DOMAIN timeouts}
    ELSE {<<i, i - 1>> : i \in 2..Len(timeouts)}

\* C33: the (score, total) of an accepted submit is fixed: no step, whether an answer
\* write, a navigation or a tick, changes it while the completion is pending, and it
\* is what is emitted and recorded when the completion fires.
C33_ScoreFixedAtAccept ==
    [][/\ \A p \in KeptPlaces :
             /\ p[2] \in DOMAIN timeouts'
             /\ timeouts'[p[2]].score = timeouts[p[1]].score
             /\ timeouts'[p[2]].total = timeouts[p[1]].total
             /\ timeouts'[p[2]].attempt = timeouts[p[1]].attempt
       /\ \A a \in Attempts : emissions'[a].n # emissions[a].n =>
             /\ timeouts # <<>> /\ Head(timeouts).attempt = a
             /\ emissions'[a].score = Head(timeouts).score
             /\ emissions'[a].total = Head(timeouts).total
             /\ userStats'.history[Len(userStats'.history)].score = Head(timeouts).score
             /\ userStats'.history[Len(userStats'.history)].total = Head(timeouts).total]_vars

\* C33 witness: a submit was accepted with no correct answer; while its completion is
\* pending a tick went by, the cursor moved and both answers were written correctly.
C33_Witness ==
    /\ runner.mounted /\ runner.isSubmitting /\ runner.onFinish
    /\ Len(runner.test.questions) = 2
    /\ \E i \in DOMAIN timeouts :
          timeouts[i].attempt = runner.id /\ timeouts[i].score = 0 /\ timeouts[i].age >= 1
    /\ runner.currentQ = 1
    /\ Cardinality(CorrectSlots(runner.answers, runner.test.questions)) = 2

\* The sum of the scores of the entries of a history.
RECURSIVE SumScores(_)
SumScores(history) ==
    IF history = <<>> THEN 0 ELSE Head(history).score + SumScores(Tail(history))

\* The sum of the totals of the entries of a history.
RECURSIVE SumTotals(_)
SumTotals(history) ==
    IF history = <<>> THEN 0 ELSE Head(history).total + SumTotals(Tail(history))

\* C34: the counters of the stats agree with the history: testsTaken is its length,
\* questionsAttempted the sum of its totals, correctAnswers the sum of its scores, and
\* 0 <= correctAnswers <= questionsAttempted.
C34_CountersAgreeWithHistory ==
    /\ userStats.testsTaken = Len(userStats.history)
    /\ userStats.questionsAttempted = SumTotals(userStats.history)
    /\ userStats.correctAnswers = SumScores(userStats.history)
    /\ 0 <= userStats.correctAnswers
    /\ userStats.correctAnswers <= userStats.questionsAttempted

\* C34 witness: two Attempts were recorded, one of them after it was cancelled, with
\* a correct answer among them.
C34_Witness ==
    /\ Len(userStats.history) = 2
    /\ cancelled # {}
    /\ userStats.correctAnswers >= 1
    /\ userStats.questionsAttempted = 4

\* C35: the paper descriptors and the PYQ tests agree: startPyqTest with the year and
\* slot of a descriptor shows no "not found" message and starts a Test with exactly
\* descriptor.count questions.
C35_DescriptorsStartTheirPapers ==
    /\ [](\A i \in DOMAIN pyqPapers :
             /\ pyqPapers[i].count >= 1
             /\ Len(paperQuestions(catalog, pyqPapers[i].year, pyqPapers[i].slot))
                   = pyqPapers[i].count)
    /\ [][\A i \in DOMAIN pyqPapers :
             StartPyq(pyqPapers[i]) =>
                /\ alerted' = alerted
                /\ activeTest' # NoTest
                /\ activeTest'.type = "PYQ"
                /\ Len(activeTest'.questions) = pyqPapers[i].count]_vars

\* C35 witness: the only paper of a catalog, of two questions, one without slot and
\* one of Slot 1, was started from its descriptor without a message.
C35_Witness ==
    /\ view = "pyq"
    /\ Len(pyqPapers) = 1 /\ pyqPapers[1].count = 2
    /\ activeTest # NoTest /\ activeTest.type = "PYQ"
    /\ activeTest.id = "pyq-" \o pyqPapers[1].year \o "-" \o pyqPapers[1].slot
    /\ Len(activeTest.questions) = 2
    /\ activeTest.questions[1].slot # activeTest.questions[2].slot
    /\ alerted = {}

\* Attempt a has ended: its score was delivered and no Attempt is active, or it was
\* cancelled.
Ended(a) ==
    \/ StatusOf(a) = "Finished" /\ activeTest = NoTest
    \/ StatusOf(a) = "Cancelled"

====
